---- MODULE Spec2Model ----
(***************************************************************************)
(* Model of aiohttp/web_handlers.py: the static-content handlers           *)
(* DirHandler and FileHandler and the transfer code of _FileHandlerMixin.  *)
(*                                                                         *)
(* One request is one run of the state machine.  `entry` names the         *)
(* operation the run starts in: a handler's __call__, or one of the mixin  *)
(* methods (_head_file, _get_file, _head_index) called with a stat result. *)
(* Strings are sequences of one-character strings; a file's bytes are the  *)
(* numbers 1..file_len (byte i is the byte at offset i-1), the response    *)
(* header block is the number 0.                                           *)
(***************************************************************************)
EXTENDS Integers, Sequences, FiniteSets, TLC

\* ---------------------------------------------------------------- bounds
MaxSegLen == 5      \* longest requested path segment, in characters
MaxSec == 1         \* largest whole-second timestamp
MaxSize == 3        \* largest file size / stat size, in bytes
MaxChunk == 2       \* largest configured chunk size, in bytes

VARIABLES
    entry,              \* the operation this run starts in
    method,             \* req.method
    base_dir,           \* DirHandler._base_dir (absolute, normalized)
    req_path,           \* req.match["path"]
    fs_kind,            \* FileHandler: what os.stat finds at self._path
    if_modified_since,  \* req.if_modified_since: <<>> (None) or <<seconds>>
    path_stat,          \* the stat result handed to the mixin methods
    chunk_size,         \* self._chunk_size
    has_socket,         \* transport.get_extra_info("socket") is not None
    sslcontext,         \* transport.get_extra_info("sslcontext") is not None
    env_nosendfile,     \* os.environ has a non-empty AIOHTTP_NOSENDFILE
    os_has_sendfile,    \* hasattr(os, "sendfile")
    no_sendfile,        \* self._no_sendfile
    file_present,       \* the file still exists (it may vanish after stat)
    file_len,           \* the file's length when it is transferred
    pc,                 \* position of the request task
    outcome,            \* how the run ended: "none" while it runs
    stat_calls,         \* number of os.stat calls made
    path,               \* the normalized path computed by _validate_path
    resp,               \* "none" | "constructed" | "prepared"
    headers,            \* the response's computed headers (<<>> when none)
    outbuf,             \* bytes written to the response, not yet on the wire
    wire,               \* bytes on the wire, in order
    fobj,               \* "none" | "open" | "closed"
    fpos,               \* fobj's read position
    count,              \* _sendfile_fallback's local count
    chunk,              \* _sendfile_fallback's local chunk
    fut,                \* "none" | "pending" | "result" | "exception" | "cancelled"
    writer,             \* loop's writer registration for out_fd: <<>> or <<args>>
    sendfile_path,      \* which transfer path _sendfile took: "none" | "system" | "fallback"
    hdr_undrained_at_body, \* a body-transfer attempt began with header bytes buffered
    stale_fd_calls,     \* os.sendfile was called on a closed in_fd
    last,               \* the latest os.sendfile call: <<>> or <<its record>>
    cb_error            \* the writer callback raised (InvalidStateError)

vars == <<entry, method, base_dir, req_path, fs_kind, if_modified_since,
          path_stat, chunk_size, has_socket, sslcontext, env_nosendfile,
          os_has_sendfile, no_sendfile,
          file_present, file_len, pc, outcome, stat_calls, path, resp,
          headers, outbuf, wire, fobj, fpos, count, chunk, fut, writer,
          sendfile_path, hdr_undrained_at_body, stale_fd_calls, last, cb_error>>

\* ------------------------------------------------------- strings and paths
Sep == "/"

Alphabet == {"/", ".", "a"}

Segments == UNION {[1..n -> Alphabet] : n \in 0..MaxSegLen}

BaseDirs == {<<"/", "a">>, <<"/">>}

Methods == {"GET", "HEAD", "POST"}

\* str.startswith
StartsWith(s, prefix) ==
    /\ Len(prefix) <= Len(s)
    /\ SubSeq(s, 1, Len(prefix)) = prefix

\* str.split("/"): the components between separators, empty ones included
RECURSIVE SplitFrom(_, _, _)
SplitFrom(s, i, cur) ==
    IF i > Len(s) THEN <<cur>>
    ELSE IF s[i] = Sep THEN <<cur>> \o SplitFrom(s, i + 1, <<>>)
    ELSE SplitFrom(s, i + 1, Append(cur, s[i]))

Split(s) == SplitFrom(s, 1, <<>>)

\* "/".join(comps)
RECURSIVE JoinSep(_)
JoinSep(comps) ==
    IF comps = <<>> THEN <<>>
    ELSE IF Len(comps) = 1 THEN comps[1]
    ELSE comps[1] \o <<Sep>> \o JoinSep(Tail(comps))

\* os.path.join(a, b) (posixpath): an absolute b replaces a
PathJoin(a, b) ==
    IF StartsWith(b, <<Sep>>) THEN b
    ELSE IF a = <<>> \/ a[Len(a)] = Sep THEN a \o b
    ELSE a \o <<Sep>> \o b

DotDot == <<".", ".">>

\* the component loop of posixpath.normpath
RECURSIVE NormComps(_, _, _)
NormComps(comps, new_comps, initial_slashes) ==
    IF comps = <<>> THEN new_comps
    ELSE LET comp == Head(comps)
             rest == Tail(comps)
         IN IF comp = <<>> \/ comp = <<".">>
            THEN NormComps(rest, new_comps, initial_slashes)
            ELSE IF \/ comp # DotDot
                    \/ (initial_slashes = 0 /\ new_comps = <<>>)
                    \/ (new_comps # <<>> /\ new_comps[Len(new_comps)] = DotDot)
            THEN NormComps(rest, Append(new_comps, comp), initial_slashes)
            ELSE IF new_comps # <<>>
            THEN NormComps(rest, SubSeq(new_comps, 1, Len(new_comps) - 1),
                           initial_slashes)
            ELSE NormComps(rest, new_comps, initial_slashes)

InitialSlashes(p) ==
    IF ~StartsWith(p, <<Sep>>) THEN 0
    ELSE IF StartsWith(p, <<Sep, Sep>>) /\ ~StartsWith(p, <<Sep, Sep, Sep>>)
    THEN 2
    ELSE 1

\* os.path.normpath (posixpath)
NormPath(p) ==
    IF p = <<>> THEN <<".">>
    ELSE LET initial_slashes == InitialSlashes(p)
             joined == JoinSep(NormComps(Split(p), <<>>, initial_slashes))
             res == IF initial_slashes = 2 THEN <<Sep, Sep>> \o joined
                    ELSE IF initial_slashes = 1 THEN <<Sep>> \o joined
                    ELSE joined
         IN IF res = <<>> THEN <<".">> ELSE res

\* the non-empty components of a normalized path
Components(p) == SelectSeq(Split(p), LAMBDA c : c # <<>>)

\* component-by-component containment: p is root or lies in root's subtree
InsideRoot(p, root) ==
    LET pc_ == Components(p)
        rc == Components(root)
    IN /\ Len(rc) <= Len(pc_)
       /\ SubSeq(pc_, 1, Len(rc)) = rc

\* The filesystem the requests run against: what os.stat finds at a
\* normalized path.  /a is a directory holding the file /a/a; /aa is a
\* file beside /a whose name starts with the name of /a.
FsKind(p) ==
    LET c == Components(p)
    IN IF c = <<>> THEN "dir"
       ELSE IF c = << <<"a">> >> THEN "dir"
       ELSE IF c = << <<"a">>, <<"a">> >> THEN "file"
       ELSE IF c = << <<"a", "a">> >> THEN "file"
       ELSE "absent"

\* ------------------------------------------------------------ path resolution
\* DirHandler._validate_path: the normalized path, what it raises, and the
\* number of os.stat calls it makes
ValidatePath(base, rp) ==
    LET p == NormPath(PathJoin(base, rp))
    IN IF ~StartsWith(p, base)
       THEN [raised |-> "HTTPNotFound", path |-> p, stats |-> 0]
       ELSE IF FsKind(p) = "absent"
       THEN [raised |-> "HTTPNotFound", path |-> p, stats |-> 1]
       ELSE [raised |-> "none", path |-> p, stats |-> 1]

\* stat.S_ISREG / stat.S_ISDIR are handed the os.stat_result itself instead
\* of its st_mode: the call raises TypeError for every stat result
S_ISREG_of_stat_result == "TypeError"

\* ------------------------------------------------------------ cache validation
NoStat == [st_mtime |-> [sec |-> 0, sub |-> FALSE], st_size |-> 0]

\* an mtime is whole seconds plus a flag for a non-zero sub-second part
Mtimes == [sec : 0..MaxSec, sub : BOOLEAN]

Stats == [st_mtime : Mtimes, st_size : 0..MaxSize]

ModSinces == {<<>>} \cup {<<s>> : s \in 0..MaxSec}

\* file_mtime <= modsince.timestamp(): a float against whole seconds
MtimeLE(mtime, secs) ==
    \/ mtime.sec < secs
    \/ (mtime.sec = secs /\ ~mtime.sub)

\* the test of _head_file and _head_index
NotModified(modsince, mtime) ==
    /\ modsince # <<>>
    /\ MtimeLE(mtime, modsince[1])

\* the headers _head_file computes
FileHeaders(st) ==
    [content_type |-> "guessed", last_modified |-> st.st_mtime,
     content_length |-> <<st.st_size>>]

\* the headers _head_index computes
IndexHeaders(st) ==
    [content_type |-> "text/html", last_modified |-> st.st_mtime,
     content_length |-> <<>>]

\* _FileHandlerMixin.__init__
NoSendfile(env_set, has_sendfile) == env_set \/ ~has_sendfile

\* ------------------------------------------------------------------- Init
Idle ==
    /\ pc = "start" /\ outcome = "none" /\ stat_calls = 0 /\ path = <<>>
    /\ resp = "none" /\ headers = <<>> /\ outbuf = <<>> /\ wire = <<>>
    /\ fobj = "none" /\ fpos = 0 /\ count = 0 /\ chunk = <<>>
    /\ fut = "none" /\ writer = <<>> /\ sendfile_path = "none"
    /\ hdr_undrained_at_body = FALSE /\ stale_fd_calls = FALSE
    /\ last = <<>>
    /\ cb_error = FALSE

NoTransferConfig ==
    /\ chunk_size = 1 /\ has_socket = TRUE /\ sslcontext = FALSE
    /\ env_nosendfile = FALSE /\ os_has_sendfile = TRUE
    /\ no_sendfile = NoSendfile(env_nosendfile, os_has_sendfile)
    /\ file_present = TRUE /\ file_len = 0

InitDir ==
    /\ entry = "DirHandler"
    /\ method \in Methods
    /\ base_dir \in BaseDirs
    /\ req_path \in Segments
    /\ fs_kind = "dir"
    /\ if_modified_since = <<>> /\ path_stat = NoStat
    /\ NoTransferConfig

InitFile ==
    /\ entry = "FileHandler"
    /\ method \in Methods
    /\ base_dir = <<Sep>> /\ req_path = <<>>
    /\ fs_kind \in {"absent", "file", "dir"}
    /\ if_modified_since = <<>> /\ path_stat = NoStat
    /\ NoTransferConfig

InitHead ==
    /\ entry \in {"_head_file", "_head_index"}
    /\ method = "HEAD"
    /\ base_dir = <<Sep>> /\ req_path = <<>>
    /\ fs_kind = IF entry = "_head_file" THEN "file" ELSE "dir"
    /\ if_modified_since \in ModSinces
    /\ path_stat \in Stats
    /\ NoTransferConfig

InitGet ==
    /\ entry = "_get_file"
    /\ method = "GET"
    /\ base_dir = <<Sep>> /\ req_path = <<>>
    /\ fs_kind = "file"
    /\ if_modified_since \in ModSinces
    /\ path_stat \in Stats
    /\ chunk_size \in 1..MaxChunk
    /\ has_socket \in BOOLEAN
    /\ sslcontext \in BOOLEAN
    /\ env_nosendfile \in BOOLEAN
    /\ os_has_sendfile \in BOOLEAN
    /\ no_sendfile = NoSendfile(env_nosendfile, os_has_sendfile)
    /\ file_present = TRUE
    /\ file_len \in 0..MaxSize

Init == Idle /\ (InitDir \/ InitFile \/ InitHead \/ InitGet)

\* ------------------------------------------------------------- handlers
transfer_vars == <<resp, headers, outbuf, wire, fobj, fpos, count, chunk, fut,
                   writer, sendfile_path, hdr_undrained_at_body,
                   stale_fd_calls, last, cb_error, file_present>>

input_vars == <<entry, method, base_dir, req_path, fs_kind, if_modified_since,
                path_stat, chunk_size, has_socket, sslcontext, env_nosendfile,
                os_has_sendfile, no_sendfile, file_len>>

\* Handler_call without the final else: every method but HEAD runs get
Handler_call_NoMethodCheck ==
    /\ pc = "start"
    /\ entry \in {"DirHandler", "FileHandler"}
    /\ pc' = IF method = "HEAD" THEN "head" ELSE "get"
    /\ UNCHANGED <<input_vars, transfer_vars, stat_calls, path, outcome>>

\* DirHandler.__call__ and FileHandler.__call__: dispatch on the method
Handler_call ==
    /\ pc = "start"
    /\ entry \in {"DirHandler", "FileHandler"}
    /\ IF method = "GET" THEN pc' = "get" /\ outcome' = outcome
       ELSE IF method = "HEAD" THEN pc' = "head" /\ outcome' = outcome
       ELSE pc' = "done" /\ outcome' = "405"
    /\ UNCHANGED <<input_vars, transfer_vars, stat_calls, path>>

\* DirHandler.get and DirHandler.head up to their first branch
DirHandler_get_head ==
    /\ pc \in {"get", "head"}
    /\ entry = "DirHandler"
    /\ LET v == ValidatePath(base_dir, req_path)
       IN /\ stat_calls' = stat_calls + v.stats
          /\ IF v.raised # "none"
             THEN outcome' = "404" /\ path' = path
             ELSE outcome' = S_ISREG_of_stat_result /\ path' = v.path
    /\ pc' = "done"
    /\ UNCHANGED <<input_vars, transfer_vars>>

\* FileHandler._check_path
CheckPath(kind) ==
    IF kind = "absent" THEN "404" ELSE S_ISREG_of_stat_result

\* FileHandler.get and FileHandler.head up to the return of _check_path
FileHandler_get_head ==
    /\ pc \in {"get", "head"}
    /\ entry = "FileHandler"
    /\ stat_calls' = stat_calls + 1
    /\ outcome' = CheckPath(fs_kind)
    /\ pc' = "done"
    /\ UNCHANGED <<input_vars, transfer_vars, path>>

\* HeadFile with the response built before the If-Modified-Since test
HeadFile_ConstructFirst ==
    /\ pc = "start"
    /\ entry = "_head_file"
    /\ resp' = "constructed"
    /\ headers' = <<FileHeaders(path_stat)>>
    /\ outcome' = IF NotModified(if_modified_since, path_stat.st_mtime)
                  THEN "304" ELSE "200"
    /\ pc' = "done"
    /\ UNCHANGED <<input_vars, stat_calls, path, outbuf, wire, fobj, fpos,
                   count, chunk, fut, writer, sendfile_path,
                   hdr_undrained_at_body, stale_fd_calls, last, cb_error,
                   file_present>>

\* _head_file called on its own (HEAD of a file)
HeadFile ==
    /\ pc = "start"
    /\ entry = "_head_file"
    /\ IF NotModified(if_modified_since, path_stat.st_mtime)
       THEN outcome' = "304" /\ resp' = resp /\ headers' = headers
       ELSE /\ outcome' = "200"
            /\ resp' = "constructed"
            /\ headers' = <<FileHeaders(path_stat)>>
    /\ pc' = "done"
    /\ UNCHANGED <<input_vars, stat_calls, path, outbuf, wire, fobj, fpos,
                   count, chunk, fut, writer, sendfile_path,
                   hdr_undrained_at_body, stale_fd_calls, last, cb_error,
                   file_present>>

\* _head_index (HEAD of a directory listing)
HeadIndex ==
    /\ pc = "start"
    /\ entry = "_head_index"
    /\ IF NotModified(if_modified_since, path_stat.st_mtime)
       THEN outcome' = "304" /\ resp' = resp /\ headers' = headers
       ELSE /\ outcome' = "200"
            /\ resp' = "constructed"
            /\ headers' = <<IndexHeaders(path_stat)>>
    /\ pc' = "done"
    /\ UNCHANGED <<input_vars, stat_calls, path, outbuf, wire, fobj, fpos,
                   count, chunk, fut, writer, sendfile_path,
                   hdr_undrained_at_body, stale_fd_calls, last, cb_error,
                   file_present>>

\* --------------------------------------------------- response and transport
\* StreamResponse.prepare: the header block is written to the transport
Prepare(buf) == Append(buf, 0)

\* StreamResponse.write: the bytes are appended behind what is buffered
Write(buf, data) == buf \o data

\* StreamResponse.drain returns once the transport's buffer is empty
Drained == outbuf = <<>>

\* the header block is still buffered
HeaderBuffered == \E i \in 1..Len(outbuf) : outbuf[i] = 0

\* the transport sends the oldest buffered byte
Flush ==
    /\ outbuf # <<>>
    /\ wire' = Append(wire, Head(outbuf))
    /\ outbuf' = Tail(outbuf)
    /\ UNCHANGED <<input_vars, pc, outcome, stat_calls, path, resp, headers,
                   fobj, fpos, count, chunk, fut, writer, sendfile_path,
                   hdr_undrained_at_body, stale_fd_calls, last, cb_error,
                   file_present>>

Min(a, b) == IF a < b THEN a ELSE b

\* the file's bytes at offsets from .. from + n - 1
FileBytes(from, n) == [i \in 1..n |-> from + i]

\* fobj.read(size) at position pos: short only at end of file
Read(pos, size) ==
    IF pos >= file_len THEN <<>>
    ELSE FileBytes(pos, Min(size, file_len - pos))

\* chunk[:n]
Slice(data, n) == SubSeq(data, 1, Min(n, Len(data)))

\* ------------------------------------------------------------- _get_file
\* the file is removed after the stat that produced path_stat
Vanish ==
    /\ pc = "open"
    /\ file_present
    /\ file_present' = FALSE
    /\ UNCHANGED <<input_vars, pc, outcome, stat_calls, path, resp, headers,
                   outbuf, wire, fobj, fpos, count, chunk, fut, writer,
                   sendfile_path, hdr_undrained_at_body, stale_fd_calls, last,
                   cb_error>>

\* _get_file: _head_file, then resp.prepare
GetFile_head_prepare ==
    /\ pc = "start"
    /\ entry = "_get_file"
    /\ IF NotModified(if_modified_since, path_stat.st_mtime)
       THEN /\ outcome' = "304" /\ pc' = "done"
            /\ UNCHANGED <<resp, headers, outbuf>>
       ELSE /\ resp' = "prepared"
            /\ headers' = <<FileHeaders(path_stat)>>
            /\ outbuf' = Prepare(outbuf)
            /\ pc' = "open" /\ outcome' = outcome
    /\ UNCHANGED <<input_vars, stat_calls, path, wire, fobj, fpos, count,
                   chunk, fut, writer, sendfile_path, hdr_undrained_at_body,
                   stale_fd_calls, last, cb_error, file_present>>

\* GetFile_open without the except clause: FileNotFoundError escapes
GetFile_open_Uncaught ==
    /\ pc = "open"
    /\ IF file_present
       THEN fobj' = "open" /\ pc' = "_sendfile" /\ outcome' = outcome
       ELSE fobj' = fobj /\ pc' = "done" /\ outcome' = "FileNotFoundError"
    /\ UNCHANGED <<input_vars, stat_calls, path, resp, headers, outbuf, wire,
                   fpos, count, chunk, fut, writer, sendfile_path,
                   hdr_undrained_at_body, stale_fd_calls, last, cb_error,
                   file_present>>

\* _get_file: open(path, "rb")
GetFile_open ==
    /\ pc = "open"
    /\ IF file_present
       THEN fobj' = "open" /\ pc' = "_sendfile" /\ outcome' = outcome
       ELSE fobj' = fobj /\ pc' = "done" /\ outcome' = "404"
    /\ UNCHANGED <<input_vars, stat_calls, path, resp, headers, outbuf, wire,
                   fpos, count, chunk, fut, writer, sendfile_path,
                   hdr_undrained_at_body, stale_fd_calls, last, cb_error,
                   file_present>>

\* WithExit with fobj.close() after the transfer instead of a with block:
\* the file is closed on return only
WithExit_CloseOnReturnOnly(how) ==
    /\ fobj' = IF how = "200" THEN "closed" ELSE fobj
    /\ outcome' = how
    /\ pc' = "done"

\* leaving `with fobj:` by return or by an exception
WithExit(how) ==
    /\ fobj' = "closed"
    /\ outcome' = how
    /\ pc' = "done"

\* ----------------------------------------------------- _sendfile_fallback
\* FallbackLoop with resp.write(chunk) in place of resp.write(chunk[:count])
FallbackLoop_WholeLastChunk(cnt, data) ==
    IF data # <<>> /\ cnt > chunk_size
    THEN /\ outbuf' = Write(outbuf, data)
         /\ hdr_undrained_at_body' = (hdr_undrained_at_body \/ HeaderBuffered)
         /\ pc' = "fb_drain" /\ UNCHANGED <<fobj, outcome>>
    ELSE IF data # <<>>
    THEN /\ outbuf' = Write(outbuf, data)
         /\ hdr_undrained_at_body' = (hdr_undrained_at_body \/ HeaderBuffered)
         /\ pc' = "fb_drain_last" /\ UNCHANGED <<fobj, outcome>>
    ELSE /\ fobj' = "closed" /\ outcome' = "200" /\ pc' = "done"
         /\ UNCHANGED <<outbuf, hdr_undrained_at_body>>

\* the test of the while loop and what follows it, with `cnt` and `data`
\* the current count and chunk
FallbackLoop(cnt, data) ==
    IF data # <<>> /\ cnt > chunk_size
    THEN /\ outbuf' = Write(outbuf, data)
         /\ hdr_undrained_at_body' = (hdr_undrained_at_body \/ HeaderBuffered)
         /\ pc' = "fb_drain" /\ UNCHANGED <<fobj, outcome>>
    ELSE IF data # <<>>
    THEN /\ outbuf' = Write(outbuf, Slice(data, cnt))
         /\ hdr_undrained_at_body' = (hdr_undrained_at_body \/ HeaderBuffered)
         /\ pc' = "fb_drain_last" /\ UNCHANGED <<fobj, outcome>>
    ELSE /\ WithExit("200")
         /\ UNCHANGED <<outbuf, hdr_undrained_at_body>>

\* UseFallback without the sslcontext test
UseFallback_IgnoreSsl == ~has_socket \/ no_sendfile

\* the test of _sendfile
UseFallback == ~has_socket \/ sslcontext \/ no_sendfile

\* _sendfile: choose the path; the fallback runs to its first drain
Sendfile ==
    /\ pc = "_sendfile"
    /\ IF UseFallback
       THEN /\ sendfile_path' = "fallback"
            /\ chunk' = Read(fpos, chunk_size)
            /\ fpos' = fpos + Len(chunk')
            /\ count' = path_stat.st_size
            /\ FallbackLoop(count', chunk')
       ELSE /\ sendfile_path' = "system"
            /\ pc' = "zc_drain"
            /\ UNCHANGED <<chunk, fpos, count, outbuf, fobj, outcome,
                           hdr_undrained_at_body>>
    /\ UNCHANGED <<input_vars, stat_calls, path, resp, headers, wire, fut,
                   writer, stale_fd_calls, last, cb_error, file_present>>

\* _sendfile_fallback: the drain inside the loop returns
Fallback_next ==
    /\ pc = "fb_drain"
    /\ Drained
    /\ count' = count - chunk_size
    /\ chunk' = Read(fpos, chunk_size)
    /\ fpos' = fpos + Len(chunk')
    /\ FallbackLoop(count', chunk')
    /\ UNCHANGED <<input_vars, stat_calls, path, resp, headers, wire, fut,
                   writer, sendfile_path, stale_fd_calls, last, cb_error,
                   file_present>>

\* _sendfile_fallback: the drain after the last write returns
Fallback_last ==
    /\ pc = "fb_drain_last"
    /\ Drained
    /\ WithExit("200")
    /\ UNCHANGED <<input_vars, stat_calls, path, resp, headers, outbuf, wire,
                   fpos, count, chunk, fut, writer, sendfile_path,
                   hdr_undrained_at_body, stale_fd_calls, last, cb_error,
                   file_present>>

\* ----------------------------------------------------- kernel zero-copy path
Errnos == {"EAGAIN", "EINTR", "EPIPE"}

\* the errors that mean "nothing sent, try again"
WouldBlock == {"EAGAIN", "EINTR"}

\* what os.sendfile(out_fd, in_fd, offset, cnt) can do.  On the open file:
\* transfer n bytes (0 only at or past the end of the file, or for cnt = 0)
\* or raise; a transfer of no bytes has nothing to wait for, so it does not
\* block.  On a closed in_fd the descriptor number is stale: the call raises
\* EBADF, or the number has been handed out again and the call acts on
\* whatever file now owns it (own = FALSE).
SendfileResults(offset, cnt) ==
    IF fobj = "open"
    THEN LET avail == Min(cnt, file_len - offset)
         IN {[err |-> "none", n |-> k, own |-> TRUE] :
                k \in IF avail <= 0 THEN {0} ELSE 1..avail}
            \cup {[err |-> e, n |-> 0, own |-> TRUE] :
                    e \in IF cnt > 0 THEN Errnos ELSE Errnos \ WouldBlock}
    ELSE {[err |-> "EBADF", n |-> 0, own |-> FALSE]}
         \cup {[err |-> "none", n |-> k, own |-> FALSE] : k \in 0..cnt}
         \cup {[err |-> e, n |-> 0, own |-> FALSE] :
                 e \in IF cnt > 0 THEN Errnos ELSE Errnos \ WouldBlock}

\* the bytes a call puts on the wire: the file's own, or another file's (-1)
SentBytes(offset, r) ==
    IF r.own THEN FileBytes(offset, r.n) ELSE [i \in 1..r.n |-> -1]

\* _sendfile_system_cb without loop.remove_writer
SendfileSystemCb_NoRemove(f, offset, cnt, registered, r) ==
    LET removed == writer
        n == IF r.err = "none" THEN (IF r.n = 0 THEN cnt ELSE r.n)
             ELSE 0
    IN /\ wire' = wire \o SentBytes(offset, r)
       /\ hdr_undrained_at_body' = (hdr_undrained_at_body \/ HeaderBuffered)
       /\ stale_fd_calls' = (stale_fd_calls \/ fobj # "open")
       /\ last' = <<[offset |-> offset, count |-> cnt, err |-> r.err,
                     n |-> r.n, registered |-> registered,
                     fut_before |-> f, reg_at_call |-> removed # <<>>,
                     fd_open |-> fobj = "open"]>>
       /\ IF r.err \notin {"none"} \cup WouldBlock
          THEN /\ writer' = removed
               /\ IF f = "pending"
                  THEN fut' = "exception" /\ cb_error' = cb_error
                  ELSE fut' = f /\ cb_error' = TRUE
          ELSE IF n < cnt
          THEN /\ writer' = <<[offset |-> offset + n, count |-> cnt - n]>>
               /\ fut' = f /\ cb_error' = cb_error
          ELSE /\ writer' = removed
               /\ IF f = "pending"
                  THEN fut' = "result" /\ cb_error' = cb_error
                  ELSE fut' = f /\ cb_error' = TRUE

\* _sendfile_system_cb re-registering with offset instead of offset + n
SendfileSystemCb_SameOffset(f, offset, cnt, registered, r) ==
    LET removed == IF registered THEN <<>> ELSE writer
        n == IF r.err = "none" THEN (IF r.n = 0 THEN cnt ELSE r.n)
             ELSE 0
    IN /\ wire' = wire \o SentBytes(offset, r)
       /\ hdr_undrained_at_body' = (hdr_undrained_at_body \/ HeaderBuffered)
       /\ stale_fd_calls' = (stale_fd_calls \/ fobj # "open")
       /\ last' = <<[offset |-> offset, count |-> cnt, err |-> r.err,
                     n |-> r.n, registered |-> registered,
                     fut_before |-> f, reg_at_call |-> removed # <<>>,
                     fd_open |-> fobj = "open"]>>
       /\ IF r.err \notin {"none"} \cup WouldBlock
          THEN /\ writer' = removed
               /\ IF f = "pending"
                  THEN fut' = "exception" /\ cb_error' = cb_error
                  ELSE fut' = f /\ cb_error' = TRUE
          ELSE IF n < cnt
          THEN /\ writer' = <<[offset |-> offset, count |-> cnt - n]>>
               /\ fut' = f /\ cb_error' = cb_error
          ELSE /\ writer' = removed
               /\ IF f = "pending"
                  THEN fut' = "result" /\ cb_error' = cb_error
                  ELSE fut' = f /\ cb_error' = TRUE

\* _sendfile_system_cb re-registering with count instead of count - n
SendfileSystemCb_SameCount(f, offset, cnt, registered, r) ==
    LET removed == IF registered THEN <<>> ELSE writer
        n == IF r.err = "none" THEN (IF r.n = 0 THEN cnt ELSE r.n)
             ELSE 0
    IN /\ wire' = wire \o SentBytes(offset, r)
       /\ hdr_undrained_at_body' = (hdr_undrained_at_body \/ HeaderBuffered)
       /\ stale_fd_calls' = (stale_fd_calls \/ fobj # "open")
       /\ last' = <<[offset |-> offset, count |-> cnt, err |-> r.err,
                     n |-> r.n, registered |-> registered,
                     fut_before |-> f, reg_at_call |-> removed # <<>>,
                     fd_open |-> fobj = "open"]>>
       /\ IF r.err \notin {"none"} \cup WouldBlock
          THEN /\ writer' = removed
               /\ IF f = "pending"
                  THEN fut' = "exception" /\ cb_error' = cb_error
                  ELSE fut' = f /\ cb_error' = TRUE
          ELSE IF n < cnt
          THEN /\ writer' = <<[offset |-> offset + n, count |-> cnt]>>
               /\ fut' = f /\ cb_error' = cb_error
          ELSE /\ writer' = removed
               /\ IF f = "pending"
                  THEN fut' = "result" /\ cb_error' = cb_error
                  ELSE fut' = f /\ cb_error' = TRUE

\* _sendfile_system_cb without the BlockingIOError / InterruptedError clause
SendfileSystemCb_BlockIsFatal(f, offset, cnt, registered, r) ==
    LET removed == IF registered THEN <<>> ELSE writer
        n == IF r.err = "none" THEN (IF r.n = 0 THEN cnt ELSE r.n)
             ELSE 0
    IN /\ wire' = wire \o SentBytes(offset, r)
       /\ hdr_undrained_at_body' = (hdr_undrained_at_body \/ HeaderBuffered)
       /\ stale_fd_calls' = (stale_fd_calls \/ fobj # "open")
       /\ last' = <<[offset |-> offset, count |-> cnt, err |-> r.err,
                     n |-> r.n, registered |-> registered,
                     fut_before |-> f, reg_at_call |-> removed # <<>>,
                     fd_open |-> fobj = "open"]>>
       /\ IF r.err \notin {"none"}
          THEN /\ writer' = removed
               /\ IF f = "pending"
                  THEN fut' = "exception" /\ cb_error' = cb_error
                  ELSE fut' = f /\ cb_error' = TRUE
          ELSE IF n < cnt
          THEN /\ writer' = <<[offset |-> offset + n, count |-> cnt - n]>>
               /\ fut' = f /\ cb_error' = cb_error
          ELSE /\ writer' = removed
               /\ IF f = "pending"
                  THEN fut' = "result" /\ cb_error' = cb_error
                  ELSE fut' = f /\ cb_error' = TRUE

\* _sendfile_system_cb without the `if n == 0: n = count` lines
SendfileSystemCb_NoEof(f, offset, cnt, registered, r) ==
    LET removed == IF registered THEN <<>> ELSE writer
        n == IF r.err = "none" THEN r.n ELSE 0
    IN /\ wire' = wire \o SentBytes(offset, r)
       /\ hdr_undrained_at_body' = (hdr_undrained_at_body \/ HeaderBuffered)
       /\ stale_fd_calls' = (stale_fd_calls \/ fobj # "open")
       /\ last' = <<[offset |-> offset, count |-> cnt, err |-> r.err,
                     n |-> r.n, registered |-> registered,
                     fut_before |-> f, reg_at_call |-> removed # <<>>,
                     fd_open |-> fobj = "open"]>>
       /\ IF r.err \notin {"none"} \cup WouldBlock
          THEN /\ writer' = removed
               /\ IF f = "pending"
                  THEN fut' = "exception" /\ cb_error' = cb_error
                  ELSE fut' = f /\ cb_error' = TRUE
          ELSE IF n < cnt
          THEN /\ writer' = <<[offset |-> offset + n, count |-> cnt - n]>>
               /\ fut' = f /\ cb_error' = cb_error
          ELSE /\ writer' = removed
               /\ IF f = "pending"
                  THEN fut' = "result" /\ cb_error' = cb_error
                  ELSE fut' = f /\ cb_error' = TRUE

\* _sendfile_system_cb, with f the state of its future when it is called and
\* r the outcome of its os.sendfile call
SendfileSystemCb(f, offset, cnt, registered, r) ==
    LET removed == IF registered THEN <<>> ELSE writer
        n == IF r.err = "none" THEN (IF r.n = 0 THEN cnt ELSE r.n)
             ELSE 0
    IN /\ wire' = wire \o SentBytes(offset, r)
       /\ hdr_undrained_at_body' = (hdr_undrained_at_body \/ HeaderBuffered)
       /\ stale_fd_calls' = (stale_fd_calls \/ fobj # "open")
       /\ last' = <<[offset |-> offset, count |-> cnt, err |-> r.err,
                     n |-> r.n, registered |-> registered,
                     fut_before |-> f, reg_at_call |-> removed # <<>>,
                     fd_open |-> fobj = "open"]>>
       /\ IF r.err \notin {"none"} \cup WouldBlock
          THEN /\ writer' = removed
               /\ IF f = "pending"
                  THEN fut' = "exception" /\ cb_error' = cb_error
                  ELSE fut' = f /\ cb_error' = TRUE
          ELSE IF n < cnt
          THEN /\ writer' = <<[offset |-> offset + n, count |-> cnt - n]>>
               /\ fut' = f /\ cb_error' = cb_error
          ELSE /\ writer' = removed
               /\ IF f = "pending"
                  THEN fut' = "result" /\ cb_error' = cb_error
                  ELSE fut' = f /\ cb_error' = TRUE

\* Sendfile_system without `yield from resp.drain()`
Sendfile_system_NoDrain ==
    /\ pc = "zc_drain"
    /\ \E r \in SendfileResults(0, path_stat.st_size) :
          SendfileSystemCb("pending", 0, path_stat.st_size, FALSE, r)
    /\ pc' = "zc_wait"
    /\ UNCHANGED <<input_vars, stat_calls, path, resp, headers, outbuf, fobj,
                   fpos, count, chunk, sendfile_path, outcome, file_present>>

\* _sendfile: the drain returns, the future is made, first callback call
Sendfile_system ==
    /\ pc = "zc_drain"
    /\ Drained
    /\ \E r \in SendfileResults(0, path_stat.st_size) :
          SendfileSystemCb("pending", 0, path_stat.st_size, FALSE, r)
    /\ pc' = "zc_wait"
    /\ UNCHANGED <<input_vars, stat_calls, path, resp, headers, outbuf, fobj,
                   fpos, count, chunk, sendfile_path, outcome, file_present>>

\* the loop finds out_fd writable and calls the registered writer
Notify ==
    /\ writer # <<>>
    /\ LET args == writer[1]
       IN \E r \in SendfileResults(args.offset, args.count) :
             SendfileSystemCb(fut, args.offset, args.count, TRUE, r)
    /\ UNCHANGED <<input_vars, pc, outcome, stat_calls, path, resp, headers,
                   outbuf, fobj, fpos, count, chunk, sendfile_path,
                   file_present>>

\* _sendfile: `yield from fut` returns or raises; _get_file leaves the with
Sendfile_resume ==
    /\ pc = "zc_wait"
    /\ fut \in {"result", "exception"}
    /\ WithExit(IF fut = "result" THEN "200" ELSE "OSError")
    /\ UNCHANGED <<input_vars, stat_calls, path, resp, headers, outbuf, wire,
                   fpos, count, chunk, fut, writer, sendfile_path,
                   hdr_undrained_at_body, stale_fd_calls, last, cb_error,
                   file_present>>

\* ------------------------------------------------------------ cancellation
\* the task is cancelled while it is suspended in resp.drain
Cancel_drain ==
    /\ pc \in {"fb_drain", "fb_drain_last", "zc_drain"}
    /\ ~Drained
    /\ WithExit("Cancelled")
    /\ UNCHANGED <<input_vars, stat_calls, path, resp, headers, outbuf, wire,
                   fpos, count, chunk, fut, writer, sendfile_path,
                   hdr_undrained_at_body, stale_fd_calls, last, cb_error,
                   file_present>>

\* resp.drain raises because the connection was lost
Drain_raises ==
    /\ pc \in {"fb_drain", "fb_drain_last", "zc_drain"}
    /\ ~Drained
    /\ WithExit("ConnectionError")
    /\ UNCHANGED <<input_vars, stat_calls, path, resp, headers, outbuf, wire,
                   fpos, count, chunk, fut, writer, sendfile_path,
                   hdr_undrained_at_body, stale_fd_calls, last, cb_error,
                   file_present>>

\* Task.cancel while the task waits for the sendfile future: the future is
\* cancelled and the task's wakeup is scheduled
Cancel_future ==
    /\ pc = "zc_wait"
    /\ fut = "pending"
    /\ fut' = "cancelled"
    /\ pc' = "zc_cancelled"
    /\ UNCHANGED <<input_vars, outcome, stat_calls, path, resp, headers,
                   outbuf, wire, fobj, fpos, count, chunk, writer,
                   sendfile_path, hdr_undrained_at_body, stale_fd_calls, last,
                   cb_error, file_present>>

\* CancelledError is thrown into _sendfile; _get_file leaves the with
Cancel_unwind ==
    /\ pc = "zc_cancelled"
    /\ WithExit("Cancelled")
    /\ UNCHANGED <<input_vars, stat_calls, path, resp, headers, outbuf, wire,
                   fpos, count, chunk, fut, writer, sendfile_path,
                   hdr_undrained_at_body, stale_fd_calls, last, cb_error,
                   file_present>>

Next ==
    \/ Handler_call
    \/ DirHandler_get_head
    \/ FileHandler_get_head
    \/ HeadFile
    \/ HeadIndex
    \/ GetFile_head_prepare
    \/ Vanish
    \/ GetFile_open
    \/ Sendfile
    \/ Fallback_next
    \/ Fallback_last
    \/ Sendfile_system
    \/ Notify
    \/ Sendfile_resume
    \/ Flush
    \/ Cancel_drain
    \/ Drain_raises
    \/ Cancel_future
    \/ Cancel_unwind

Spec == Init /\ [][Next]_vars

\* a writability notification whose os.sendfile call neither blocks nor is
\* interrupted: it transfers bytes, reports end of file or fails
NotifyProgress ==
    /\ Notify
    /\ last'[1].err \notin WouldBlock

\* the event loop keeps calling a registered writer, and the socket does not
\* stay unwritable for ever
LiveSpec == Spec /\ WF_vars(NotifyProgress)

\* ================================================================ claims
Handlers == {"DirHandler", "FileHandler"}

MixinEntries == {"_head_file", "_head_index", "_get_file"}

\* the body bytes written so far, on the wire or still buffered
BodySent == SelectSeq(wire \o outbuf, LAMBDA b : b # 0)

Iota(n) == [i \in 1..n |-> i]

\* C1: for every root and requested segment, _validate_path raises
\* HTTPNotFound or returns a normalized path that is the root or lies in the
\* root's subtree, compared component by component.
C1_NoEscape ==
    (entry = "DirHandler" /\ pc = "done" /\ method \in {"GET", "HEAD"})
        => \/ outcome = "404"
           \/ (path # <<>> /\ InsideRoot(path, base_dir))

\* C2: the 304 decision of _head_file / _head_index is taken iff
\* If-Modified-Since is present and the mtime truncated to whole seconds is
\* less than or equal to it.
C2_NotModifiedIffTruncated ==
    (entry \in MixinEntries /\ pc # "start")
        => ((outcome = "304")
              <=> (/\ if_modified_since # <<>>
                   /\ path_stat.st_mtime.sec <= if_modified_since[1]))

\* C3 as stated: on both transfer paths no body-transfer attempt (os.sendfile
\* call or body chunk write) begins while header bytes are still buffered.
C3_NoBodyAttemptBeforeHeaderDrained == ~hdr_undrained_at_body

\* C3 amended: on the zero-copy path no os.sendfile call begins while header
\* bytes are buffered; on both paths the header block is the first thing on
\* the wire, so no body byte precedes a header byte.
C3_HeaderBeforeBody ==
    /\ sendfile_path = "system" => ~hdr_undrained_at_body
    /\ wire # <<>> => wire[1] = 0
    /\ \A i \in 2..Len(wire) : wire[i] # 0

C3_Witness ==
    /\ sendfile_path = "system"
    /\ fut = "result"
    /\ Len(wire) > 1

\* C4: the file handle opened by _get_file is closed by the time _get_file
\* returns or raises: after a successful transfer, a transfer error, and a
\* cancellation in drain or while awaiting the sendfile future.
C4_HandleClosedOnExit ==
    (entry = "_get_file" /\ pc = "done")
        => /\ fobj # "open"
           /\ outcome \in {"200", "OSError", "ConnectionError", "Cancelled"}
                 => fobj = "closed"

C4_Witness ==
    /\ pc = "done"
    /\ outcome = "Cancelled"
    /\ fut = "cancelled"
    /\ fobj = "closed"

\* C5: after the task is cancelled while a zero-copy transfer waits for a
\* writability notification, no writer callback remains registered for the
\* destination socket and the source handle is released.
C5_CancelDeregistersWriter ==
    (outcome = "Cancelled" /\ fut = "cancelled")
        => (writer = <<>> /\ fobj = "closed")

\* C6: a file that passed the stat check and is gone when GET opens it ends
\* the request with HTTPNotFound (404) and nothing else, as a file that never
\* existed does.
C6_VanishedFileIs404 ==
    /\ (entry = "_get_file" /\ pc = "done" /\ ~file_present)
          => (outcome = "404" /\ fobj = "none")
    /\ (entry = "FileHandler" /\ pc = "done" /\ fs_kind = "absent"
          /\ method \in {"GET", "HEAD"})
          => outcome = "404"

C6_Witness ==
    /\ entry = "_get_file"
    /\ pc = "done"
    /\ ~file_present
    /\ outcome = "404"

\* the request's target is absent, or its normalized path does not start
\* with the root
TargetRejected ==
    IF entry = "DirHandler"
    THEN LET p == NormPath(PathJoin(base_dir, req_path))
         IN ~StartsWith(p, base_dir) \/ FsKind(p) = "absent"
    ELSE fs_kind = "absent"

C8_FallbackWritesCountBytes ==
    (sendfile_path = "fallback" /\ file_len >= path_stat.st_size)
        => /\ BodySent = Iota(Len(BodySent))
           /\ Len(BodySent) <= path_stat.st_size
           /\ (pc = "done" /\ outcome = "200")
                 => BodySent = Iota(path_stat.st_size)

C8_Witness ==
    /\ sendfile_path = "fallback"
    /\ pc = "done"
    /\ outcome = "200"
    /\ count > 0
    /\ Len(chunk) > count
    /\ BodySent = Iota(path_stat.st_size)

\* C9: _sendfile takes the zero-copy path iff the transport exposes a socket,
\* there is no SSL context and sendfile is neither disabled by configuration
\* nor missing on the platform; otherwise the fallback; os.sendfile is never
\* called for an encrypted connection and exactly one path runs per GET.
C9_PathSelection ==
    /\ sendfile_path # "none"
          => ((sendfile_path = "system")
                <=> (/\ has_socket /\ ~sslcontext
                     /\ ~env_nosendfile /\ os_has_sendfile))
    /\ fut # "none" => (sendfile_path = "system" /\ ~sslcontext)
    /\ sendfile_path = "system" => (chunk = <<>> /\ fpos = 0
                                    /\ \A i \in 1..Len(outbuf) : outbuf[i] = 0)
    /\ sendfile_path = "fallback"
          => (fut = "none" /\ writer = <<>> /\ ~stale_fd_calls)

C9_Witness ==
    /\ sendfile_path = "system"
    /\ fut = "result"
    /\ outcome = "200"
    /\ env_nosendfile = FALSE

\* nothing of a response exists: none constructed, no header computed or
\* emitted, the file never opened, no byte read or written
NothingDone ==
    /\ resp = "none" /\ headers = <<>>
    /\ outbuf = <<>> /\ wire = <<>>
    /\ fobj = "none" /\ fpos = 0 /\ chunk = <<>>
    /\ sendfile_path = "none" /\ fut = "none"

Last == last[1]

\* the bytes reported as transferred by all os.sendfile calls so far
SentCount == Len(SelectSeq(wire, LAMBDA b : b # 0))

\* C11: at most one writer registration for the destination socket is
\* outstanding at any time; a retry triggered by a notification removes the
\* registration before it calls os.sendfile; once the future is resolved
\* with a result or an exception no registration remains.
C11_OneWriterRegistration ==
    /\ Len(writer) <= 1
    /\ last # <<>> => ~Last.reg_at_call
    /\ fut \in {"result", "exception"} => writer = <<>>

C11_Witness ==
    /\ last # <<>>
    /\ Last.registered
    /\ ~Last.reg_at_call
    /\ fut = "result"
    /\ writer = <<>>

\* C12: in the zero-copy retry loop offset + remaining equals totalBytes,
\* offset equals the sum of the byte counts reported by all earlier
\* os.sendfile attempts, each attempt is issued at that offset for the
\* remaining bytes, and the file's bytes go out in order, none twice, none
\* skipped.
C12_OffsetAccounting ==
    sendfile_path = "system"
        => /\ writer # <<>>
                => /\ writer[1].offset + writer[1].count = path_stat.st_size
                   /\ writer[1].offset = SentCount
                   /\ writer[1].count > 0
           /\ last # <<>>
                => /\ Last.offset + Last.count = path_stat.st_size
                   /\ Last.offset + Last.n = SentCount
           /\ LET own == SelectSeq(wire, LAMBDA b : b > 0)
              IN own = Iota(Len(own))

C12_Witness ==
    /\ last # <<>>
    /\ Last.registered
    /\ Last.offset > 0
    /\ Last.n > 0
    /\ Last.offset + Last.n < path_stat.st_size
    /\ Last.fd_open

\* the latest os.sendfile call would block or was interrupted
LastBlocked == last # <<>> /\ Last.err \in WouldBlock

\* C13: when an os.sendfile attempt would block or is interrupted, (offset,
\* remaining) is unchanged, the call does not resolve the future, and the
\* next attempt is made by a writability notification with the same (offset,
\* remaining).
C13_WouldBlockKeepsState ==
    /\ [](LastBlocked
            => /\ writer = <<[offset |-> Last.offset, count |-> Last.count]>>
               /\ fut \in {Last.fut_before, "cancelled"}
               /\ fut \notin {"result", "exception"})
    /\ [][(LastBlocked /\ last' # last)
            => /\ last'[1].registered
               /\ last'[1].offset = Last.offset
               /\ last'[1].count = Last.count]_vars

C13_Witness ==
    /\ LastBlocked
    /\ Last.registered
    /\ Last.offset > 0
    /\ fut = "pending"

\* the latest os.sendfile call transferred some but not all bytes asked for
LastPartial ==
    last # <<>> /\ Last.err = "none" /\ 0 < Last.n /\ Last.n < Last.count

\* C14 as stated: after a partial transfer the loop retries at once; it waits
\* for a writability notification only when the attempt made no progress.
C14_WaitsOnlyWithoutProgress ==
    writer # <<>> => (last # <<>> /\ Last.n = 0)

\* C14 amended: after a partial transfer of n bytes the loop advances to
\* (offset + n, remaining - n), registers a writer and makes its next attempt
\* only when a writability notification fires, with exactly those values.
C14_PartialWaitsForNotification ==
    /\ [](LastPartial
            => /\ writer = <<[offset |-> Last.offset + Last.n,
                              count |-> Last.count - Last.n]>>
               /\ fut \notin {"result", "exception"})
    /\ [][(LastPartial /\ last' # last)
            => /\ last'[1].registered
               /\ last'[1].offset = Last.offset + Last.n
               /\ last'[1].count = Last.count - Last.n]_vars

C14_Witness ==
    /\ LastPartial
    /\ writer # <<>>
    /\ fut = "pending"
    /\ pc = "zc_wait"

\* the latest os.sendfile call reported zero bytes while bytes remained
LastZero ==
    last # <<>> /\ Last.err = "none" /\ Last.n = 0 /\ Last.count > 0

\* C15: when os.sendfile reports zero bytes transferred while remaining > 0,
\* the transfer is resolved as successful at once: no error is set on the
\* future, no writer is registered and no further attempt is made.
C15_ZeroResolvesSuccessfully ==
    LastZero => /\ fut = "result"
                /\ writer = <<>>
                /\ ~cb_error

\* the latest os.sendfile call failed with an error that is neither
\* would-block nor interrupted
LastFatal == last # <<>> /\ Last.err \notin {"none"} \cup WouldBlock

\* C16: when an os.sendfile attempt fails with any error other than
\* would-block or interrupted, the future is resolved with that error, no
\* writer registration is left, and the error reaches the caller of
\* _get_file.
C16_FatalErrorPropagates ==
    LastFatal => /\ fut = "exception"
                 /\ writer = <<>>
                 /\ pc = "done" => outcome = "OSError"

\* C18: every HTTP error outcome (404, 405, 304) is raised before any
\* response header is emitted.
C18_HttpErrorBeforeHeaders ==
    outcome \in {"404", "405", "304"}
        => /\ resp # "prepared"
           /\ wire = <<>>
           /\ outbuf = <<>>

\* C19: whenever a GET of a file completes successfully, the number of body
\* bytes delivered equals the Content-Length announced in the headers, on
\* both paths, for every file length at transfer time.
C19_BodyMatchesContentLength ==
    (entry = "_get_file" /\ pc = "done" /\ outcome = "200")
        => /\ headers # <<>>
           /\ headers[1].content_length = <<Len(BodySent)>>

\* C20: _sendfile_system_cb never calls os.sendfile with a source descriptor
\* that _get_file has already closed.
C20_NoSendfileOnClosedDescriptor ==
    last # <<>> => Last.fd_open

\* C17: if the socket becomes writable again after every would-block and
\* every attempt on a writable socket transfers a byte or fails, every
\* zero-copy transfer eventually resolves its future (or the future is
\* cancelled); the loop never retries for ever.
C17_TransferResolves == (fut = "pending") ~> (fut # "pending")

C17_Witness ==
    /\ pc = "zc_wait"
    /\ fut \in {"result", "exception"}
    /\ last # <<>>
    /\ Last.registered
    /\ Last.offset > 0

====
